---- MODULE Spec2Model ----
(***************************************************************************)
(* Flight-finder: the search-with-fallback request handler (POST), the     *)
(* bounded racer runWithLimit it fans out with, and the Amadeus token      *)
(* cache behind searchFlightOffers.                                        *)
(*                                                                         *)
(* Two handlers are modelled side by side, chosen by `variant`:            *)
(*   "route" = src/app/api/flights/route.ts  (withRetry + sequential loop) *)
(*   "lib"   = src/unnamed/part_001          (withTimeout + runWithLimit)  *)
(***************************************************************************)
EXTENDS Integers, Sequences, FiniteSets, TLC

VARIABLES
  racer,        \* runWithLimit's closure: i, active, done, the promise, per-item status
  variant,      \* which POST handler serves the request
  pc,           \* position of the POST handler
  req,          \* origin, destination, depart, ret, cabin after normalisation
  offers,       \* the handler's `offers` local: <<>> or the offers of one search
  used,         \* the handler's `used` local
  expandedByLLM,\* the handler's `expandedByLLM` local
  ordered,      \* the scored, sorted, capped combos
  call,         \* the sequential search in flight (primary, loop candidate, economy)
  stage,        \* per racing candidate: where its searchFlightOffers call is
  response,     \* what POST returned
  cachedToken,  \* module-level token cache
  now,          \* wall clock, seconds
  log,          \* history: every searchFlightOffers call started, in order
  comboCalls,   \* history: calls of the combo proposer
  authFailAt,   \* history: Len(log) when token acquisition first failed, else -1
  source,       \* history: which search the handler's `offers` came from
  token0,       \* history: the token cache when the request arrived
  rt,           \* one withRetry run: attempt index, timer, the operation, errors
  sc,           \* searchFlightOffers calls sharing the token cache
  pl,           \* one run of the combo validation
  rk,           \* one run of the ranking
  hist          \* history: was the body normalised and the return date it carried; how
                \* the primary and the economy search last ended; did the proposer
                \* answer; the first combo whose search returned offers

vars == <<racer, variant, pc, req, offers, used, expandedByLLM, ordered, call,
          stage, response, cachedToken, now, log, comboCalls, authFailAt, source, token0, hist,
          rt, sc, pl, rk>>

\* the state of the components that are also exercised on their own
aux == <<rt, sc, pl, rk>>

orchVars == <<variant, pc, req, offers, used, expandedByLLM, ordered, call,
              stage, response, cachedToken, now, log, comboCalls, authFailAt, source, token0,
              hist, rt, sc, pl, rk>>

(***************************************************************************)
(* Bounds                                                                  *)
(***************************************************************************)
MaxItems == 6
MaxLimit == 4

(***************************************************************************)
(* runWithLimit (src/unnamed/part_004:89-124)                              *)
(***************************************************************************)
Pending == -1      \* the promise is not resolved yet
NullResult == 0    \* resolve(null)

\* The closure of one runWithLimit call over n items.  Item k's worker result,
\* when truthy, is written k.
NewRacer(n, limit) ==
  [ n |-> n, limit |-> limit, called |-> FALSE,
    i |-> 0, active |-> 0, done |-> FALSE, result |-> Pending,
    status |-> [k \in 1..n |-> "unstarted"],
    startOrder |-> <<>>, firstOk |-> 0 ]

\* resolve(v): a promise keeps the first value it is resolved with.
Resolve(r, v) == IF r.result = Pending THEN [r EXCEPT !.result = v] ELSE r

\* mutant: off by one in the concurrency test
CanStartMore_OffByOne(r) == r.active <= r.limit /\ r.i < r.n

\* while (active < limit && i < items.length)
CanStartMore(r) == r.active < r.limit /\ r.i < r.n

RECURSIVE StartLoop(_)
StartLoop(r) ==
  IF CanStartMore(r)
  THEN StartLoop([r EXCEPT !.i = @ + 1,
                           !.active = @ + 1,
                           !.status[r.i + 1] = "running",
                           !.startOrder = Append(@, r.i + 1)])
  ELSE r

\* mutant: null as soon as the items are used up, whatever is still in flight
RacerNext_IgnoresActive(r) ==
  IF r.done THEN r
  ELSE IF r.i >= r.n THEN Resolve(r, NullResult)
  ELSE StartLoop(r)

\* mutant: next() without its first line
RacerNext_IgnoresDone(r) ==
  IF r.i >= r.n /\ r.active = 0 THEN Resolve(r, NullResult)
  ELSE StartLoop(r)

\* const next = () => { ... }
RacerNext(r) ==
  IF r.done THEN r
  ELSE IF r.i >= r.n /\ r.active = 0 THEN Resolve(r, NullResult)
  ELSE StartLoop(r)

\* mutant: a success counts only once every earlier worker has settled
Wins_InInputOrder(r, k, res) ==
  ~r.done /\ res /\ \A j \in 1..(k - 1) : r.status[j] \notin {"running", "hung"}

\* if (!done && res)
Wins(r, k, res) == ~r.done /\ res

\* .then((res) => { ... }) of worker k; res is whether the worker's value is truthy
RacerThen(r, k, res) ==
  LET r1 == [r EXCEPT !.active = @ - 1,
                      !.status[k] = IF res THEN "ok" ELSE "null",
                      !.firstOk = IF res /\ @ = 0 THEN k ELSE @]
  IN IF Wins(r1, k, res)
     THEN Resolve([r1 EXCEPT !.done = TRUE], k)
     ELSE RacerNext(r1)

\* mutant: the rejection handler frees the slot and stops there
RacerCatch_NoNext(r, k) ==
  [r EXCEPT !.active = @ - 1,
            !.status[k] = "rejected"]

\* .catch(() => { ... }) of worker k
RacerCatch(r, k) ==
  RacerNext([r EXCEPT !.active = @ - 1,
                      !.status[k] = "rejected"])

InFlight(r) == {k \in 1..r.n : r.status[k] \in {"running", "hung"}}

(***************************************************************************)
(* Token cache (src/app/lib/amadeus.ts:12-51, route.ts:18-57)              *)
(***************************************************************************)
MaxNow == 1                 \* the clock runs 0..MaxNow
SafetyMargin == 30          \* cachedToken.expires_at - 30 <= now
DefaultExpiresIn == 1500    \* j.expires_in ?? 1500
NoExpiresIn == 0            \* the auth response carries no expires_in
ExpiresInSet == {NoExpiresIn, SafetyMargin + 1}

NoToken == [present |-> FALSE, expires_at |-> 0]

\* mutant: a credential expiring exactly at the margin is still used
NeedsRefresh_Strict(tok, t) == ~tok.present \/ tok.expires_at - SafetyMargin < t

\* if (!cachedToken || cachedToken.expires_at - 30 <= now)
NeedsRefresh(tok, t) == ~tok.present \/ tok.expires_at - SafetyMargin <= t

\* fetchNewToken's result stored by getAmadeusToken
NewToken(t, expires_in) ==
  [present |-> TRUE,
   expires_at |-> t + (IF expires_in = NoExpiresIn THEN DefaultExpiresIn ELSE expires_in)]

\* searchFlightOffers up to its first suspension: getAmadeusToken either has a
\* usable cached token (the offers request goes out) or awaits fetchNewToken.
StartStage(tok, t) == IF NeedsRefresh(tok, t) THEN "auth" ELSE "fetch"

(***************************************************************************)
(* Dates are day numbers; 0 is the empty string / undefined, BadDate a     *)
(* non-empty string that new Date() cannot parse.                          *)
(***************************************************************************)
BadDate == -1
Today == 2

\* new Date(s).getTime() is not NaN
Parses(d) == d > 0

\* mutant: the return date is passed through
ensureReturnAfterDepart_Keeps(dep, ret) == ret

\* function ensureReturnAfterDepart(dep, ret)
ensureReturnAfterDepart(dep, ret) ==
  IF dep = 0 \/ ret = 0 THEN ret
  ELSE IF Parses(ret) /\ Parses(dep) /\ ret >= dep THEN ret ELSE 0

\* String.prototype.toUpperCase on the strings that occur
ToUpper(s) ==
  CASE s = "jfk" -> "JFK"
    [] s = "ewr " -> "EWR "
    [] s = "business" -> "BUSINESS"
    [] OTHER -> s

\* String.prototype.trim on the strings that occur
Trim(s) == IF s = "EWR " THEN "EWR" ELSE s

\* cabinMap[String(body.cabin || "M")] || "ECONOMY"
cabinMap(c) ==
  CASE c = "" -> "ECONOMY"
    [] c = "M" -> "ECONOMY"
    [] c = "W" -> "PREMIUM_ECONOMY"
    [] c = "C" -> "BUSINESS"
    [] c = "F" -> "FIRST"
    [] OTHER -> "ECONOMY"

\* String(parsed.cabin || "ECONOMY").toUpperCase() || "ECONOMY"
parsedCabin(c) == IF c = "" THEN "ECONOMY" ELSE ToUpper(c)

\* Request bodies: the form fields, or free text with what the parser made of it.
FormBodies ==
  [viaQuery : {FALSE}, origin : {"", "jfk"}, destination : {"", "LAX"},
   depart : {0, Today + 1}, ret : {0, BadDate, Today, Today + 2},
   cabin : {"", "M", "W", "C", "F", "X"}]

QueryBodies ==
  [viaQuery : {TRUE}, origin : {"", "jfk"}, destination : {"", "LAX"},
   depart : {0, Today + 1}, ret : {0, Today, Today + 2},
   cabin : {"", "business", "FIRST", "PREMIUM_ECONOMY"}]

\* The handler's locals origin, destination, depart, ret, cabin before validation
Normalize(body) ==
  LET dep == body.depart
  IN [origin |-> ToUpper(body.origin),
      destination |-> ToUpper(body.destination),
      depart |-> dep,
      ret |-> ensureReturnAfterDepart(dep, body.ret),
      cabin |-> IF body.viaQuery THEN parsedCabin(body.cabin) ELSE cabinMap(body.cabin)]

\* mutant: the depart date is not checked
MissingField_NoDepart(q) == q.origin = "" \/ q.destination = ""

\* if (!origin || !destination || !depart)
MissingField(q) == q.origin = "" \/ q.destination = "" \/ q.depart = 0

(***************************************************************************)
(* Combo planner: validation (src/unnamed/part_003:121-149,                *)
(* route.ts:268-293) and scoring (part_001:110-119, route.ts:504-513)      *)
(***************************************************************************)
MaxCombos == 3     \* how many raw combos the proposer returns at most
ValidateCap == 12  \* .slice(0, 12) in llmExpandCombos
ValidateCapRoute == 8   \* .slice(0, 8) in exec_expand_combos
OrderCap == 12     \* .slice(0, 12) after the sort, part_001
OrderCapRoute == 8 \* .slice(0, 8) after the sort, route.ts

\* What the proposer may hand back, in the order it chose.
Pool ==
  << [origin |-> "ewr ", destination |-> "LAX", depart |-> Today + 1, ret |-> 0],
     [origin |-> "JFK",  destination |-> "BUR", depart |-> Today + 1, ret |-> Today + 2],
     [origin |-> "JFK",  destination |-> "LAX", depart |-> Today + 2, ret |-> 0],
     [origin |-> "JFK",  destination |-> "LAX", depart |-> Today - 1, ret |-> 0],
     [origin |-> "JFK",  destination |-> "LAX", depart |-> Today + 2, ret |-> Today + 1],
     [origin |-> "JFK",  destination |-> "LAX", depart |-> BadDate,   ret |-> 0],
     [origin |-> "",     destination |-> "LAX", depart |-> Today + 1, ret |-> 0] >>

RECURSIVE PickFrom(_, _)
\* the members of Pool whose index is in S, in Pool order
PickFrom(k, S) ==
  IF k > Len(Pool) THEN <<>>
  ELSE (IF k \in S THEN <<Pool[k]>> ELSE <<>>) \o PickFrom(k + 1, S)

RawOutputs ==
  {PickFrom(1, S) : S \in {T \in SUBSET (1..Len(Pool)) : Cardinality(T) <= MaxCombos}}

Take(s, n) == IF Len(s) <= n THEN s ELSE SubSeq(s, 1, n)

\* mutant: a return date before the depart date is cleared, as for the request
CleanCombo_RepairsReturn(c) ==
  [origin |-> Trim(ToUpper(c.origin)),
   destination |-> Trim(ToUpper(c.destination)),
   depart |-> c.depart,
   ret |-> ensureReturnAfterDepart(c.depart, c.ret)]

\* .map((c) => ({ origin: ..toUpperCase().trim(), ..., ret: c.ret ? .. : null }))
CleanCombo(c) ==
  [origin |-> Trim(ToUpper(c.origin)),
   destination |-> Trim(ToUpper(c.destination)),
   depart |-> c.depart,
   ret |-> c.ret]

\* .filter((c) => c.origin && c.destination && c.depart && !isNaN(..) &&
\*                depart >= today && (!c.ret || ret >= depart))
ValidCombo(c) ==
  /\ c.origin # ""
  /\ c.destination # ""
  /\ c.depart # 0
  /\ Parses(c.depart)
  /\ c.depart >= Today
  /\ (c.ret = 0 \/ (Parses(c.ret) /\ c.ret >= c.depart))

RECURSIVE FilterValid(_)
FilterValid(s) ==
  IF s = <<>> THEN <<>>
  ELSE (IF ValidCombo(Head(s)) THEN <<Head(s)>> ELSE <<>>) \o FilterValid(Tail(s))

\* llmExpandCombos / exec_expand_combos after the model answered
ValidateCombos(raw, cap) ==
  Take(FilterValid([k \in 1..Len(raw) |-> CleanCombo(raw[k])]), cap)

Abs(x) == IF x < 0 THEN -x ELSE x

\* mutant: only the date shift counts
score_DateOnly(c, q) == Abs(c.depart - q.depart)

\* const score = (c) => { ... }
score(c, q) ==
  (IF c.origin = q.origin THEN -2 ELSE 0)
  + (IF c.destination = q.destination THEN -2 ELSE 0)
  + Abs(c.depart - q.depart)

\* Not-a-Number, written as an integer that no price and no score takes: every
\* comparison with it is false and every difference with it is NaN again.
NaN == -999

\* The comparators of both sorts order by one or two numbers: a sort item is
\* [key |-> <<k1, k2>>, val |-> element]; cmp(a, b) < 0 iff KeyBefore(a, b).
KeyBefore(a, b) ==
  IF a.key[1] = NaN \/ b.key[1] = NaN THEN FALSE
  ELSE IF a.key[1] # b.key[1] THEN a.key[1] < b.key[1] ELSE a.key[2] < b.key[2]

RECURSIVE InsertSorted(_, _)
\* x placed after every element that does not come after it (stable)
InsertSorted(x, s) ==
  IF s = <<>> THEN <<x>>
  ELSE IF KeyBefore(x, s[Len(s)]) THEN Append(InsertSorted(x, SubSeq(s, 1, Len(s) - 1)), s[Len(s)])
  ELSE Append(s, x)

RECURSIVE StableSort(_)
\* Array.prototype.sort (stable)
StableSort(s) ==
  IF s = <<>> THEN <<>>
  ELSE InsertSorted(s[Len(s)], StableSort(SubSeq(s, 1, Len(s) - 1)))

Vals(s) == [k \in 1..Len(s) |-> s[k].val]

\* combos.sort((a, b) => score(a) - score(b)).slice(0, cap)
OrderCombos(combos, q, cap) ==
  Take(Vals(StableSort([k \in 1..Len(combos) |->
                          [key |-> <<score(combos[k], q), 0>>, val |-> combos[k]]])), cap)

(***************************************************************************)
(* Result ranking (route.ts:133-158, part_001:201-232)                     *)
(***************************************************************************)
RankCap == 12

\* price.grandTotal is a non-negative number n (the string "n"), missing, or a
\* string that is not a number
AbsentTotal == -1
NonNumericTotal == -2

\* Number(o.price?.grandTotal || 0)
ToPrice(g) ==
  IF g = AbsentTotal THEN 0 ELSE IF g = NonNumericTotal THEN NaN ELSE g

\* A duration is absent or a string; a string is the sequence of its pieces,
\* each a maximal run of digits or a single other character.
NoDuration == [kind |-> "absent", toks |-> <<>>]
Iso(toks) == [kind |-> "string", toks |-> toks]

IsDigits(t) == t \in {"0", "1", "2", "5", "15", "30"}

MinOf(S) == CHOOSE i \in S : \A j \in S : i <= j

\* /PT(\d+)H/.exec(iso)?.[1], "" for undefined
HoursOf(toks) ==
  LET S == {i \in 1..Len(toks) : /\ i + 3 <= Len(toks)
                                  /\ toks[i] = "P"
                                  /\ toks[i + 1] = "T"
                                  /\ IsDigits(toks[i + 2])
                                  /\ toks[i + 3] = "H"}
  IN IF S = {} THEN "" ELSE toks[MinOf(S) + 2]

\* /(\d+)M/.exec(iso)?.[1], "" for undefined
MinutesOf(toks) ==
  LET S == {i \in 1..Len(toks) : /\ i + 1 <= Len(toks)
                                  /\ IsDigits(toks[i])
                                  /\ toks[i + 1] = "M"}
  IN IF S = {} THEN "" ELSE toks[MinOf(S)]

\* function isoToReadableDuration(iso), the text as the sequence of its pieces
isoToReadableDuration(iso) ==
  IF iso.kind = "absent" THEN <<>>
  ELSE IF ~(Len(iso.toks) >= 2 /\ iso.toks[1] = "P" /\ iso.toks[2] = "T") THEN <<>>
  ELSE LET h == HoursOf(iso.toks)
           m == MinutesOf(iso.toks)
           text == (IF h # "" THEN <<h, "h">> ELSE <<>>)
                   \o (IF h # "" /\ m # "" THEN <<" ">> ELSE <<>>)
                   \o (IF m # "" THEN <<m, "m">> ELSE <<>>)
       IN IF text # <<>> THEN text ELSE iso.toks

\* What a 2xx offers response may carry in data when it is not empty.
OfferLists ==
  { << [id |-> 1, grandTotal |-> 5, segs |-> 1, duration |-> Iso(<<"P", "T", "2", "H">>)] >>,
    << [id |-> 1, grandTotal |-> 5, segs |-> 2,
        duration |-> Iso(<<"P", "T", "2", "H", "30", "M">>)],
       [id |-> 2, grandTotal |-> 3, segs |-> 1, duration |-> Iso(<<"P", "T", "30", "M">>)] >> }

Max(a, b) == IF a >= b THEN a ELSE b

\* offers.map((o) => ({ price, ..., stops, ..., _raw: { id } }))
Simplify(o) ==
  [price |-> ToPrice(o.grandTotal), duration |-> isoToReadableDuration(o.duration),
   stops |-> Max(0, o.segs - 1), id |-> o.id]

\* results.sort((a, b) => a.price !== b.price ? a.price - b.price : a.stops - b.stops)
\*        .slice(0, 12)
simplifyAndRank(offs) ==
  Take(Vals(StableSort([k \in 1..Len(offs) |->
                          [key |-> <<Simplify(offs[k]).price, Simplify(offs[k]).stops>>,
                           val |-> Simplify(offs[k])]])), RankCap)

(***************************************************************************)
(* POST                                                                    *)
(***************************************************************************)
RaceLimit == 4          \* runWithLimit(ordered, 4, ...)
PrimaryAttempts == 2    \* withRetry(..., { attempts: 2, ... }), route.ts

NoteEconomy == "No business found; showing economy."
NoteAfterExpansion ==
  "No offers found even after expanding via AI. Try broader dates or airports."
NoteNotAttempted ==
  "No offers found. We can try AI-based expansion if you enable it."

NoReq == [origin |-> "", destination |-> "", depart |-> 0, ret |-> 0, cabin |-> "ECONOMY"]
NoUsed == [origin |-> "", destination |-> "", departDate |-> 0, returnDate |-> 0, note |-> ""]
NoSource == [phase |-> "none", idx |-> 0]
IdleCall == [stage |-> "idle", phase |-> "none", attempt |-> 0, idx |-> 0]
NoHist ==
  [normalized |-> FALSE, ret0 |-> 0, primary |-> "", proposed |-> FALSE, econ |-> "",
   firstHit |-> 0, proposer |-> ""]
NoResponse ==
  [kind |-> "none", status |-> 0, results |-> <<>>, used |-> NoUsed, note |-> "",
   expandedByLLM |-> FALSE]

\* NextResponse.json({ error }, { status })
ErrorResponse(st) == [NoResponse EXCEPT !.kind = "error", !.status = st]

\* mutant: used reports no return date
UsedOf_NoReturn(q) ==
  [origin |-> q.origin, destination |-> q.destination, departDate |-> q.depart,
   returnDate |-> 0, note |-> ""]

\* let used = { origin, destination, departDate: depart, returnDate: ret }
UsedOf(q) ==
  [origin |-> q.origin, destination |-> q.destination, departDate |-> q.depart,
   returnDate |-> q.ret, note |-> ""]

\* mutant: used of a winning combo carries no return date
UsedOfCombo_DropsReturn(c) ==
  [origin |-> ToUpper(c.origin), destination |-> ToUpper(c.destination),
   departDate |-> c.depart, returnDate |-> 0, note |-> ""]

\* used of a winning combo: returnDate is rr = ensureReturnAfterDepart(c.depart, c.ret)
UsedOfCombo(c) ==
  [origin |-> ToUpper(c.origin), destination |-> ToUpper(c.destination),
   departDate |-> c.depart, returnDate |-> ensureReturnAfterDepart(c.depart, c.ret),
   note |-> ""]

\* mutant: the economy offers are taken without the note
WithEconomyNote_Silent(usd) == usd

\* used = { ...used, note: "No business found; showing economy." }
WithEconomyNote(usd) == [usd EXCEPT !.note = NoteEconomy]

\* mutant: the empty answer reports the flag as it was before the expansion
Respond_FlagUnset(offs, usd, expanded) ==
  IF offs = <<>>
  THEN [kind |-> "outcome", status |-> 200, results |-> <<>>, used |-> usd,
        note |-> NoteNotAttempted, expandedByLLM |-> FALSE]
  ELSE [kind |-> "outcome", status |-> 200, results |-> simplifyAndRank(offs),
        used |-> usd, note |-> "", expandedByLLM |-> expanded]

\* the tail of POST: if (!offers?.length) {...empty...} else rank and return
Respond(offs, usd, expanded) ==
  IF offs = <<>>
  THEN [kind |-> "outcome", status |-> 200, results |-> <<>>, used |-> usd,
        note |-> IF expanded THEN NoteAfterExpansion ELSE NoteNotAttempted,
        expandedByLLM |-> expanded]
  ELSE [kind |-> "outcome", status |-> 200, results |-> simplifyAndRank(offs),
        used |-> usd, note |-> "", expandedByLLM |-> expanded]

\* the arguments of one searchFlightOffers call
LogEntry(phase, idx, o, d, dep, ret, cabin) ==
  [phase |-> phase, idx |-> idx, origin |-> o, destination |-> d,
   departDate |-> dep, returnDate |-> ret, cabin |-> cabin]

PrimaryEntry(q) == LogEntry("primary", 0, q.origin, q.destination, q.depart, q.ret, q.cabin)
\* mutant: the economy search keeps the requested cabin
EconEntry_SameCabin(q) ==
  LogEntry("econ", 0, q.origin, q.destination, q.depart, q.ret, q.cabin)

EconEntry(q) == LogEntry("econ", 0, q.origin, q.destination, q.depart, q.ret, "ECONOMY")
ComboEntry(k, c, q) ==
  LogEntry("combo", k, ToUpper(c.origin), ToUpper(c.destination), c.depart,
           ensureReturnAfterDepart(c.depart, c.ret), q.cabin)

RECURSIVE ComboEntries(_, _, _, _)
\* the searches of combos lo..hi, started in that order
ComboEntries(lo, hi, cs, q) ==
  IF lo > hi THEN <<>>
  ELSE <<ComboEntry(lo, cs[lo], q)>> \o ComboEntries(lo + 1, hi, cs, q)

\* the components exercised on their own, at rest
NoRetry == [pc |-> "off"]
NoSearch == [pc |-> "off"]
NoPlan == [pc |-> "off"]
NoRank == [pc |-> "off"]

AuxIdle == rt = NoRetry /\ sc = NoSearch /\ pl = NoPlan /\ rk = NoRank

Init ==
  /\ racer = NewRacer(0, RaceLimit)
  /\ variant \in {"route", "lib"}
  /\ pc = "idle"
  /\ req = NoReq
  /\ offers = <<>>
  /\ used = NoUsed
  /\ expandedByLLM = FALSE
  /\ ordered = <<>>
  /\ call = IdleCall
  /\ stage = <<>>
  /\ response = NoResponse
  /\ cachedToken \in {NoToken, NewToken(0, SafetyMargin + 1), NewToken(0, NoExpiresIn)}
  /\ now = 0
  /\ log = <<>>
  /\ comboCalls = 0
  /\ authFailAt = -1
  /\ source = NoSource
  /\ token0 = cachedToken
  /\ hist = NoHist
  /\ AuxIdle

\* time passes
Tick ==
  /\ now < MaxNow
  /\ now' = now + 1
  /\ UNCHANGED <<racer, variant, pc, req, offers, used, expandedByLLM, ordered, call,
                 stage, response, cachedToken, log, comboCalls, authFailAt, source, token0, aux, hist>>

\* POST up to the primary search: read the body (parsing free text), normalise,
\* validate, and start the primary searchFlightOffers.
Receive ==
  /\ pc = "idle"
  /\ \E body \in FormBodies \cup QueryBodies :
       LET q == Normalize(body)
       IN /\ req' = q
          /\ hist' = [hist EXCEPT !.normalized = TRUE, !.ret0 = body.ret]
          /\ IF MissingField(q)
             THEN /\ pc' = "done"
                  /\ response' = ErrorResponse(400)
                  /\ UNCHANGED <<call, log>>
             ELSE /\ pc' = "primary"
                  /\ call' = [stage |-> StartStage(cachedToken, now), phase |-> "primary",
                              attempt |-> 1, idx |-> 0]
                  /\ log' = Append(log, PrimaryEntry(q))
                  /\ UNCHANGED response
  /\ UNCHANGED <<racer, variant, offers, used, expandedByLLM, ordered, stage,
                 cachedToken, now, comboCalls, authFailAt, source, token0, aux>>

\* the free-text parser (an LLM call) throws: POST's catch answers 500
ParseThrows ==
  /\ pc = "idle"
  /\ pc' = "done"
  /\ response' = ErrorResponse(500)
  /\ UNCHANGED <<racer, variant, req, offers, used, expandedByLLM, ordered, call, stage,
                 cachedToken, now, log, comboCalls, authFailAt, source, token0, aux, hist>>

\* fetchNewToken succeeds for the sequential search in flight
SeqAuthOk ==
  /\ call.stage = "auth"
  /\ \E e \in ExpiresInSet : cachedToken' = NewToken(now, e)
  /\ call' = [call EXCEPT !.stage = "fetch"]
  /\ UNCHANGED <<racer, variant, pc, req, offers, used, expandedByLLM, ordered, stage,
                 response, now, log, comboCalls, authFailAt, source, token0, aux, hist>>

\* How a searchFlightOffers call in stage st can end: token acquisition throws,
\* or the offers request ends 2xx with data, 2xx empty, non-2xx, or aborted.
Outcomes(st) ==
  IF st = "auth" THEN {"authFail"}
  ELSE IF st = "fetch" THEN {"offers", "empty", "http", "abort"}
  ELSE {}

Threw(out) == out \in {"authFail", "http", "abort"}

\* mutant: no try/catch around a candidate's search
CandCatch_Rethrows(out) == out

\* try { next = await ...; if (next?.length) ... } catch { } around a candidate's
\* search: what the code after the try block sees
CandCatch(out) == IF Threw(out) THEN "empty" ELSE out

NoteHit(k, out) ==
  hist' = IF out = "offers" /\ hist.firstHit = 0 THEN [hist EXCEPT !.firstHit = k] ELSE hist

NoteAuthFail(out) ==
  authFailAt' = IF out = "authFail" /\ authFailAt = -1 THEN Len(log) ELSE authFailAt

\* mutant: the downgrade is tried for every cabin
DowngradeApplies_AnyCabin(q) == TRUE

\* if (cabin === "BUSINESS")
DowngradeApplies(q) == q.cabin = "BUSINESS"

\* Expanding found nothing: if (cabin === "BUSINESS") start the economy search,
\* otherwise fall through to the empty answer.  lg is the log so far.
ExpandMissed(lg) ==
  IF DowngradeApplies(req)
  THEN /\ pc' = "downgrade"
       /\ call' = [stage |-> StartStage(cachedToken, now), phase |-> "econ",
                   attempt |-> 1, idx |-> 0]
       /\ log' = Append(lg, EconEntry(req))
       /\ UNCHANGED <<response, offers, used, source>>
  ELSE /\ pc' = "done"
       /\ call' = IdleCall
       /\ log' = lg
       /\ response' = Respond(offers, used, expandedByLLM)
       /\ UNCHANGED <<offers, used, source>>

\* mutant: offers were found, and the economy search is started all the same
Found_KeepsGoing(offs, usd, src, expanded) ==
  /\ offers' = offs
  /\ used' = usd
  /\ source' = src
  /\ response' = response
  /\ pc' = "downgrade"
  /\ call' = [stage |-> StartStage(cachedToken, now), phase |-> "econ", attempt |-> 1,
              idx |-> 0]

\* Some search returned offers offs: they become `offers`, usd becomes `used`,
\* and POST ranks and returns them.
Found(offs, usd, src, expanded) ==
  /\ offers' = offs
  /\ used' = usd
  /\ source' = src
  /\ response' = Respond(offs, usd, expanded)
  /\ pc' = "done"
  /\ call' = IdleCall

\* the primary search settles
PrimarySettle ==
  /\ pc = "primary"
  /\ \E out \in Outcomes(call.stage) :
       /\ NoteAuthFail(out)
       /\ hist' = [hist EXCEPT !.primary = out]
       /\ CASE out = "offers" ->
                 /\ \E offs \in OfferLists :
                      Found(offs, UsedOf(req), [phase |-> "primary", idx |-> 0], FALSE)
                 /\ UNCHANGED <<expandedByLLM, comboCalls, log>>
            [] out = "empty" ->
                 \* if (!offers?.length) { expandedByLLM = true; combos = await ... }
                 /\ used' = UsedOf(req)
                 /\ expandedByLLM' = TRUE
                 /\ comboCalls' = comboCalls + 1
                 /\ pc' = "combos"
                 /\ call' = IdleCall
                 /\ UNCHANGED <<offers, source, response, log>>
            [] Threw(out) ->
                 IF variant = "route" /\ call.attempt < PrimaryAttempts
                 THEN \* withRetry (route.ts): any error is retried
                      /\ call' = [call EXCEPT !.stage = StartStage(cachedToken, now),
                                              !.attempt = @ + 1]
                      /\ log' = Append(log, PrimaryEntry(req))
                      /\ UNCHANGED <<pc, offers, used, source, response, expandedByLLM,
                                     comboCalls>>
                 ELSE \* the error reaches POST's catch
                      /\ pc' = "done"
                      /\ call' = IdleCall
                      /\ response' = ErrorResponse(500)
                      /\ UNCHANGED <<offers, used, source, expandedByLLM, comboCalls, log>>
  /\ UNCHANGED <<racer, variant, req, ordered, stage, cachedToken, now, token0, aux>>

\* the combo proposer (an LLM call) throws: POST's catch answers 500
CombosThrow ==
  /\ pc = "combos"
  /\ pc' = "done"
  /\ response' = ErrorResponse(500)
  /\ hist' = [hist EXCEPT !.proposer = "threw"]
  /\ UNCHANGED <<racer, variant, req, offers, used, expandedByLLM, ordered, call, stage,
                 cachedToken, now, log, comboCalls, authFailAt, source, token0, aux>>

\* the combo proposer answers one of raws: validate, score, sort, cap, and start
\* searching
CombosAnswerAs(raws, text) ==
  /\ pc = "combos"
  /\ \E raw \in raws :
       LET ord == IF variant = "lib"
                  THEN OrderCombos(ValidateCombos(raw, ValidateCap), req, OrderCap)
                  ELSE OrderCombos(ValidateCombos(raw, ValidateCapRoute), req, OrderCapRoute)
           r == RacerNext([NewRacer(Len(ord), RaceLimit) EXCEPT !.called = TRUE])
       IN /\ ordered' = ord
          /\ IF variant = "lib"
             THEN \* const found = await runWithLimit(ordered, 4, worker)
                  /\ racer' = r
                  /\ stage' = [k \in 1..Len(ord) |->
                                 IF k <= r.i THEN StartStage(cachedToken, now) ELSE "idle"]
                  /\ IF r.result = NullResult
                     THEN ExpandMissed(log)
                     ELSE /\ pc' = "racing"
                          /\ log' = log \o ComboEntries(1, r.i, ord, req)
                          /\ UNCHANGED <<call, response, offers, used, source>>
             ELSE \* for (const c of ordered) { ... }
                  /\ UNCHANGED racer
                  /\ stage' = [k \in 1..Len(ord) |-> "idle"]
                  /\ IF ord = <<>>
                     THEN ExpandMissed(log)
                     ELSE /\ pc' = "loop"
                          /\ call' = [stage |-> StartStage(cachedToken, now),
                                      phase |-> "combo", attempt |-> 1, idx |-> 1]
                          /\ log' = Append(log, ComboEntry(1, ord[1], req))
                          /\ UNCHANGED <<response, offers, used, source>>
  /\ hist' = [hist EXCEPT !.proposed = TRUE, !.proposer = text]
  /\ UNCHANGED <<variant, req, expandedByLLM, cachedToken, now, comboCalls, authFailAt,
                 token0, aux>>

\* the proposer's text decodes to an array of combos
CombosAnswer(raws) == CombosAnswerAs(raws, "")

CombosReturn == CombosAnswer(RawOutputs)

\* texts of the proposer that do not hold an array of combos: not JSON at all,
\* or a JSON object whose combos member is a string
GarbledTexts == {"notJson", "combosNotArray"}

\* exec_expand_combos: `parsed.combos || []` keeps a non-empty string, and
\* .map on it throws outside the try block; safeParseCombos returns []
DecodeThrows(v, text) == v = "route" /\ text = "combosNotArray"

\* the proposer answers with a text that cannot be decoded
CombosGarbled ==
  /\ pc = "combos"
  /\ \E text \in GarbledTexts :
       IF DecodeThrows(variant, text)
       THEN /\ pc' = "done"
            /\ response' = ErrorResponse(500)
            /\ hist' = [hist EXCEPT !.proposer = text]
            /\ UNCHANGED <<racer, variant, req, offers, used, expandedByLLM, ordered, call,
                           stage, cachedToken, now, log, comboCalls, authFailAt, source,
                           token0, aux>>
       ELSE CombosAnswerAs({<<>>}, text)

\* fetchNewToken succeeds for racing candidate k
CandAuthOk ==
  \E k \in 1..racer.n :
    /\ racer.status[k] = "running"
    /\ stage[k] = "auth"
    /\ \E e \in ExpiresInSet : cachedToken' = NewToken(now, e)
    /\ stage' = [stage EXCEPT ![k] = "fetch"]
    /\ UNCHANGED <<racer, variant, pc, req, offers, used, expandedByLLM, ordered, call,
                   response, now, log, comboCalls, authFailAt, source, token0, aux, hist>>

\* racing candidate k's search settles in one of the ways outs; the worker turns
\* offers into a result and everything else (empty, thrown) into null;
\* runWithLimit's .then runs, and if that resolves the race POST continues after
\* its await.
CandSettleWith(outs) ==
  \E k \in 1..racer.n :
    /\ pc \in {"racing", "downgrade", "done"}
    /\ racer.status[k] = "running"
    /\ \E out \in Outcomes(stage[k]) \cap outs :
         LET seen == CandCatch(out)
             r2 == IF Threw(seen) THEN RacerCatch(racer, k)
                   ELSE RacerThen(racer, k, seen = "offers")
             lg == log \o ComboEntries(racer.i + 1, r2.i, ordered, req)
         IN /\ racer' = r2
            /\ stage' = [j \in 1..racer.n |->
                           IF j = k THEN out
                           ELSE IF racer.i < j /\ j <= r2.i
                                THEN StartStage(cachedToken, now)
                                ELSE stage[j]]
            /\ NoteAuthFail(out)
            /\ NoteHit(k, out)
            /\ IF racer.result = Pending /\ r2.result # Pending
               THEN IF r2.result = NullResult
                    THEN ExpandMissed(lg)
                    ELSE /\ \E offs \in OfferLists :
                              Found(offs, UsedOfCombo(ordered[r2.result]),
                                    [phase |-> "combo", idx |-> r2.result], expandedByLLM)
                         /\ log' = lg
               ELSE /\ log' = lg
                    /\ UNCHANGED <<pc, call, response, offers, used, source>>
    /\ UNCHANGED <<variant, req, expandedByLLM, ordered, cachedToken, now, comboCalls,
                   token0, aux>>

CandSettle == CandSettleWith({"authFail", "offers", "empty", "http", "abort"})

\* route.ts: the search of combo call.idx in the sequential loop settles
LoopSettle ==
  /\ pc = "loop"
  /\ \E out \in Outcomes(call.stage) :
       /\ NoteAuthFail(out)
       /\ NoteHit(call.idx, out)
       /\ stage' = [stage EXCEPT ![call.idx] = out]
       /\ IF CandCatch(out) = "offers"
          THEN \* offers = next; used = {...}; break;
               /\ \E offs \in OfferLists :
                    Found(offs, UsedOfCombo(ordered[call.idx]),
                          [phase |-> "combo", idx |-> call.idx], expandedByLLM)
               /\ UNCHANGED log
          ELSE IF Threw(CandCatch(out))
          THEN \* an error that leaves the loop reaches POST's catch
               /\ pc' = "done"
               /\ call' = IdleCall
               /\ response' = ErrorResponse(500)
               /\ UNCHANGED <<offers, used, source, log>>
          ELSE \* empty, or withRetry threw and catch { /* try next combo */ }
               IF call.idx < Len(ordered)
               THEN /\ call' = [call EXCEPT !.stage = StartStage(cachedToken, now),
                                            !.idx = @ + 1]
                    /\ log' = Append(log, ComboEntry(call.idx + 1, ordered[call.idx + 1], req))
                    /\ UNCHANGED <<pc, response, offers, used, source>>
               ELSE ExpandMissed(log)
  /\ UNCHANGED <<racer, variant, req, expandedByLLM, ordered, cachedToken, now,
                 comboCalls, token0, aux>>

\* the economy search settles; a throw is swallowed by the try/catch around it
EconSettle ==
  /\ pc = "downgrade"
  /\ \E out \in Outcomes(call.stage) :
       /\ NoteAuthFail(out)
       /\ hist' = [hist EXCEPT !.econ = out]
       /\ IF out = "offers"
          THEN \E offs \in OfferLists :
                 Found(offs, WithEconomyNote(used),
                       [phase |-> "econ", idx |-> 0], expandedByLLM)
          ELSE /\ pc' = "done"
               /\ call' = IdleCall
               /\ response' = Respond(offers, used, expandedByLLM)
               /\ UNCHANGED <<offers, used, source>>
  /\ UNCHANGED <<racer, variant, req, expandedByLLM, ordered, stage, cachedToken, now,
                 log, comboCalls, token0, aux>>

Next ==
  \/ Tick
  \/ Receive
  \/ ParseThrows
  \/ SeqAuthOk
  \/ PrimarySettle
  \/ CombosThrow
  \/ CombosReturn
  \/ CombosGarbled
  \/ CandAuthOk
  \/ CandSettle
  \/ LoopSettle
  \/ EconSettle

Spec == Init /\ [][Next]_vars

(***************************************************************************)
(* One request with a proposer that answers with more candidates than the  *)
(* racer's limit.  The cached token is good throughout, so every search    *)
(* goes straight to its offers request.                                    *)
(***************************************************************************)
MaxWide == 5       \* the longest answer of the proposer
MaxShift == 1      \* answers start at candidates 1..MaxShift+1 of the series

\* the k-th candidate of a series that varies endpoints and dates
WideCombo(k) ==
  [origin |-> IF k % 2 = 0 THEN "JFK" ELSE "EWR",
   destination |-> IF k % 3 = 0 THEN "BUR" ELSE "LAX",
   depart |-> Today + (k % 4),
   ret |-> IF k % 5 = 0 THEN Today + 4 ELSE 0]

WideOutputs ==
  {[k \in 1..n |-> WideCombo(k + sh)] : n \in (RaceLimit + 1)..MaxWide, sh \in 0..MaxShift}

ExpandReq(cabin) ==
  [origin |-> "JFK", destination |-> "LAX", depart |-> Today + 1, ret |-> 0, cabin |-> cabin]

\* POST with its primary search in flight
InitExpand ==
  /\ racer = NewRacer(0, RaceLimit)
  /\ variant \in {"route", "lib"}
  /\ pc = "primary"
  /\ \E cabin \in {"ECONOMY", "BUSINESS"} : req = ExpandReq(cabin)
  /\ offers = <<>>
  /\ used = NoUsed
  /\ expandedByLLM = FALSE
  /\ ordered = <<>>
  /\ call = [stage |-> "fetch", phase |-> "primary", attempt |-> 1, idx |-> 0]
  /\ stage = <<>>
  /\ response = NoResponse
  /\ cachedToken = NewToken(0, NoExpiresIn)
  /\ now = 0
  /\ log = <<PrimaryEntry(req)>>
  /\ comboCalls = 0
  /\ authFailAt = -1
  /\ source = NoSource
  /\ token0 = cachedToken
  /\ hist = [NoHist EXCEPT !.normalized = TRUE]
  /\ AuxIdle

CombosWide == CombosAnswer(WideOutputs)

NextExpand ==
  \/ PrimarySettle
  \/ CombosWide
  \/ CandSettle
  \/ LoopSettle
  \/ EconSettle

SpecExpand == InitExpand /\ [][NextExpand]_vars

\* what POST is waiting for: the combo proposer, the search of candidate k (in
\* the lib handler while the race is undecided), the economy search
AwaitedProposer == pc = "combos"

AwaitedCandidate(k) ==
  IF variant = "lib"
  THEN pc = "racing" /\ k <= Len(stage) /\ stage[k] \in {"auth", "fetch"}
  ELSE pc = "loop" /\ call.idx = k

AwaitedEcon == pc = "downgrade"

\* the same when every call POST awaits settles: no single call stays awaited
\* for ever
SpecExpandLive ==
  /\ InitExpand
  /\ [][NextExpand]_vars
  /\ WF_vars(PrimarySettle)
  /\ []<>~AwaitedProposer
  /\ \A k \in 1..MaxWide : []<>~AwaitedCandidate(k)
  /\ []<>~AwaitedEcon

(***************************************************************************)
(* One request with a proposer whose answer is longer than the caps, and   *)
(* racing candidates whose searches all come back empty.                   *)
(***************************************************************************)
MaxLong == 13      \* the longest answer of the proposer

LongOutputs ==
  {[k \in 1..n |-> WideCombo(k + sh)] : n \in {ValidateCapRoute + 1, MaxLong}, sh \in 0..MaxShift}

CombosLong == CombosAnswer(LongOutputs)

CandMiss == CandSettleWith({"empty"})

NextLong ==
  \/ PrimarySettle
  \/ CombosLong
  \/ CandMiss
  \/ LoopSettle
  \/ EconSettle

SpecLong == InitExpand /\ [][NextLong]_vars

(***************************************************************************)
(* The racer on its own: any item count, any limit, any worker behaviour.  *)
(***************************************************************************)
InitRacer ==
  /\ \E n \in 0..MaxItems, limit \in 0..MaxLimit : racer = NewRacer(n, limit)
  /\ variant = "lib"
  /\ pc = "idle"
  /\ req = NoReq
  /\ offers = <<>>
  /\ used = NoUsed
  /\ expandedByLLM = FALSE
  /\ ordered = <<>>
  /\ call = IdleCall
  /\ stage = <<>>
  /\ response = NoResponse
  /\ cachedToken = NoToken
  /\ now = 0
  /\ log = <<>>
  /\ comboCalls = 0
  /\ authFailAt = -1
  /\ source = NoSource
  /\ token0 = NoToken
  /\ hist = NoHist
  /\ AuxIdle

\* runWithLimit's body: next()
RCall ==
  /\ ~racer.called
  /\ racer' = RacerNext([racer EXCEPT !.called = TRUE])
  /\ UNCHANGED orchVars

\* a worker's promise fulfils, with a truthy value or with null
RThen ==
  \E k \in 1..racer.n, res \in BOOLEAN :
    /\ racer.status[k] = "running"
    /\ racer' = RacerThen(racer, k, res)
    /\ UNCHANGED orchVars

\* a worker's promise rejects
RCatch ==
  \E k \in 1..racer.n :
    /\ racer.status[k] = "running"
    /\ racer' = RacerCatch(racer, k)
    /\ UNCHANGED orchVars

\* a worker's promise is one that never settles
RHang ==
  \E k \in 1..racer.n :
    /\ racer.status[k] = "running"
    /\ racer' = [racer EXCEPT !.status[k] = "hung"]
    /\ UNCHANGED orchVars

NextRacer == RCall \/ RThen \/ RCatch \/ RHang

SpecRacer == InitRacer /\ [][NextRacer]_vars

\* The racer when every worker started before the race is decided settles: only
\* a worker still running after the winner may never settle.
RHangLoser == racer.done /\ RHang

NextRacerLive == RCall \/ RThen \/ RCatch \/ RHangLoser

SpecRacerLive ==
  /\ InitRacer
  /\ [][NextRacerLive]_vars
  /\ WF_vars(RCall)
  /\ WF_vars(~racer.done /\ (RThen \/ RCatch))

\* everything outside the components exercised on their own, at rest
RestIdle ==
  /\ racer = NewRacer(0, RaceLimit)
  /\ variant = "lib"
  /\ pc = "idle"
  /\ req = NoReq
  /\ offers = <<>>
  /\ used = NoUsed
  /\ expandedByLLM = FALSE
  /\ ordered = <<>>
  /\ call = IdleCall
  /\ stage = <<>>
  /\ response = NoResponse
  /\ cachedToken = NoToken
  /\ now = 0
  /\ log = <<>>
  /\ comboCalls = 0
  /\ authFailAt = -1
  /\ source = NoSource
  /\ token0 = NoToken
  /\ hist = NoHist

(***************************************************************************)
(* withTimeout and withRetry around one searchFlightOffers call.           *)
(* impl = "util" is utils/withTimeout.ts, impl = "route" the helpers       *)
(* inlined in app/api/flights/route.ts.  Time is counted in ticks; a timer *)
(* that is due fires before time moves on, and so does the rejection of an *)
(* aborted fetch.                                                          *)
(***************************************************************************)
MaxAttempts == 3
TimeoutTicks == 2
BackoffTicks == 1
MaxOverrun == 2

\* errors: name and message as the code reads them, kind = what went wrong
NoErr == [name |-> "", message |-> "", kind |-> "none"]
AbortErr == [name |-> "AbortError", message |-> "This operation was aborted", kind |-> "abort"]
TimeoutErr == [name |-> "TimeoutError", message |-> "Upstream call exceeded", kind |-> "timeout"]
AuthErr == [name |-> "Error", message |-> "Amadeus auth failed: 401 invalid_client", kind |-> "auth"]
DnsErr == [name |-> "Error", message |-> "getaddrinfo EAI_AGAIN", kind |-> "dns"]
ResetErr == [name |-> "Error", message |-> "read ECONNRESET", kind |-> "reset"]
Http503 == [name |-> "Error", message |-> "Offers search failed: 503", kind |-> "http503"]
Http504 == [name |-> "Error", message |-> "Offers search failed: 504", kind |-> "http504"]
Http400 == [name |-> "Error", message |-> "Offers search failed: 400", kind |-> "http4xx"]
Http400Quoting503 ==
  [name |-> "Error", message |-> "Offers search failed: 400 code 1503", kind |-> "http4xx"]
Http500 == [name |-> "Error", message |-> "Offers search failed: 500", kind |-> "http5xx"]
Malformed == [name |-> "SyntaxError", message |-> "Unexpected token <", kind |-> "malformed"]

\* what the token step and the offers step of searchFlightOffers can throw
AuthErrors == {AuthErr, DnsErr}
OfferErrors == {ResetErr, Http503, Http504, Http400, Http400Quoting503, Http500, Malformed}

\* /ECONNRESET|ETIMEDOUT|EAI_AGAIN|503|504/.test(message), over the messages above
Matches(message) ==
  message \in {"getaddrinfo EAI_AGAIN", "read ECONNRESET", "Offers search failed: 503",
               "Offers search failed: 504", "Offers search failed: 400 code 1503"}

\* withTimeout's catch clause: the utility retags an AbortError, the route's
\* helper has no catch clause
withTimeoutCatch_NoTag(impl, e) == e

withTimeoutCatch(impl, e) ==
  IF impl = "util" /\ e.name = "AbortError" THEN TimeoutErr ELSE e

Transient(e) ==
  e.name = "AbortError" \/ e.name = "TimeoutError" \/ Matches(e.message)

\* does the loop go round again after attempt i (0-based) failed with e
ShouldRetry(impl, e, i, attempts) ==
  IF impl = "util" THEN Transient(e) /\ i # attempts - 1 ELSE i + 1 < attempts

\* mutant: the same wait before every retry
Backoff_Constant(impl, i) == IF impl = "util" THEN BackoffTicks ELSE 0

\* ticks slept before the next attempt
Backoff(impl, i) == IF impl = "util" THEN BackoffTicks * (i + 1) ELSE 0

\* lastErr = e
Remember_First(last, e) == IF last = NoErr THEN e ELSE last

Remember(last, e) == e

NewRetry(impl, attempts) ==
  [pc |-> "idle", impl |-> impl, attempts |-> attempts, i |-> 0, invoked |-> 0,
   stage |-> "none", elapsed |-> 0, aborted |-> FALSE, wait |-> 0,
   lastErr |-> NoErr, errs |-> <<>>, raw |-> <<>>, result |-> 0, vals |-> {},
   slept |-> <<>>, open |-> 0]

\* withTimeout(op, timeoutMs): a fresh controller and timer, then the operation,
\* which first needs a token (st = "auth") unless the cached one is still good
StartAttempt(r, st) ==
  [r EXCEPT !.pc = "running", !.invoked = @ + 1, !.stage = st, !.elapsed = 0,
            !.aborted = FALSE, !.open = @ + 1]

\* the operation rejected with e: withTimeout's catch, then withRetry's
AttemptFailed(r, e) ==
  LET seen == withTimeoutCatch(r.impl, e)
      r1 == [r EXCEPT !.lastErr = Remember(@, seen), !.errs = Append(@, seen),
                      !.raw = Append(@, e), !.stage = "none", !.open = @ - 1]
  IN IF ShouldRetry(r.impl, seen, r.i, r.attempts)
     THEN [r1 EXCEPT !.pc = "backoff", !.wait = Backoff(r.impl, r.i),
                     !.slept = Append(@, 0)]
     ELSE [r1 EXCEPT !.pc = "threw"]

retryRest == <<racer, variant, pc, req, offers, used, expandedByLLM, ordered, call, stage,
               response, cachedToken, now, log, comboCalls, authFailAt, source, token0, hist,
               sc, pl, rk>>

InitRetry ==
  /\ RestIdle
  /\ \E impl \in {"util", "route"}, attempts \in 1..MaxAttempts : rt = NewRetry(impl, attempts)
  /\ sc = NoSearch
  /\ pl = NoPlan
  /\ rk = NoRank

\* withRetry is called: the first attempt starts
RtCall ==
  /\ rt.pc = "idle"
  /\ \E st \in {"auth", "offers"} : rt' = StartAttempt(rt, st)
  /\ UNCHANGED retryRest

\* a tick of time passes
RtTick ==
  /\ \/ /\ rt.pc = "running"
        /\ ~(rt.elapsed = TimeoutTicks /\ ~rt.aborted)
        /\ ~(rt.aborted /\ rt.stage = "offers")
        /\ rt.elapsed < TimeoutTicks + MaxOverrun
        /\ rt' = [rt EXCEPT !.elapsed = @ + 1]
     \/ /\ rt.pc = "backoff"
        /\ rt.wait > 0
        /\ rt' = [rt EXCEPT !.wait = @ - 1, !.slept[Len(rt.slept)] = @ + 1]
  /\ UNCHANGED retryRest

\* the timer set by withTimeout fires: controller.abort()
RtTimer ==
  /\ rt.pc = "running"
  /\ rt.elapsed = TimeoutTicks
  /\ ~rt.aborted
  /\ rt' = [rt EXCEPT !.aborted = TRUE]
  /\ UNCHANGED retryRest

\* getAmadeusToken returns; the offers request is sent with the signal
RtAuthDone ==
  /\ rt.pc = "running"
  /\ rt.stage = "auth"
  /\ rt' = [rt EXCEPT !.stage = "offers"]
  /\ UNCHANGED retryRest

\* fetchNewToken throws
RtAuthFail ==
  /\ rt.pc = "running"
  /\ rt.stage = "auth"
  /\ \E e \in AuthErrors : rt' = AttemptFailed(rt, e)
  /\ UNCHANGED retryRest

\* the offers fetch sees its signal aborted and rejects
RtAbort ==
  /\ rt.pc = "running"
  /\ rt.stage = "offers"
  /\ rt.aborted
  /\ rt' = AttemptFailed(rt, AbortErr)
  /\ UNCHANGED retryRest

\* the offers request fails on its own
RtOfferFail ==
  /\ rt.pc = "running"
  /\ rt.stage = "offers"
  /\ ~rt.aborted
  /\ \E e \in OfferErrors : rt' = AttemptFailed(rt, e)
  /\ UNCHANGED retryRest

\* the operation returns; the value of attempt k is written k
RtReturn ==
  /\ rt.pc = "running"
  /\ rt.stage = "offers"
  /\ ~rt.aborted
  /\ rt' = [rt EXCEPT !.pc = "returned", !.result = rt.invoked, !.vals = @ \cup {rt.invoked},
                      !.stage = "none", !.open = @ - 1]
  /\ UNCHANGED retryRest

\* the loop goes round: i++, the next attempt starts
RtWake ==
  /\ rt.pc = "backoff"
  /\ rt.wait = 0
  /\ \E st \in {"auth", "offers"} : rt' = StartAttempt([rt EXCEPT !.i = @ + 1], st)
  /\ UNCHANGED retryRest

NextRetry ==
  \/ RtCall
  \/ RtTick
  \/ RtTimer
  \/ RtAuthDone
  \/ RtAuthFail
  \/ RtAbort
  \/ RtOfferFail
  \/ RtReturn
  \/ RtWake

SpecRetry == InitRetry /\ [][NextRetry]_vars

(***************************************************************************)
(* getAmadeusToken and searchFlightOffers: several calls in flight over    *)
(* the one module-level cachedToken.  Credentials handed out by the auth   *)
(* endpoint are numbered; cacheId is the number of the cached one.         *)
(***************************************************************************)
MaxCalls == 2

IdleSearch ==
  [pc |-> "idle", before |-> NoToken, beforeId |-> 0, at |-> 0, fetched |-> FALSE,
   authReqs |-> 0, offersReqs |-> 0, bearer |-> 0, got |-> NoToken, gotId |-> 0,
   why |-> "", afterFail |-> FALSE]

\* how the offers request can end: res.ok, a non-2xx status, or the signal aborted
OfferEnds == {"ok", "http401", "http500", "abort"}

\* mutant: a 401 is answered by sending the offers request once more
SettleOffers_RetryOn401(c, out) ==
  IF out = "ok" THEN [c EXCEPT !.pc = "ok"]
  ELSE IF out = "http401" /\ c.offersReqs < 2 THEN [c EXCEPT !.offersReqs = @ + 1]
  ELSE [c EXCEPT !.pc = "failed", !.why = out]

\* if (!res.ok) throw ...; return data?.data ?? []
SettleOffers(c, out) ==
  IF out = "ok" THEN [c EXCEPT !.pc = "ok"] ELSE [c EXCEPT !.pc = "failed", !.why = out]

searchRest == <<racer, variant, pc, req, offers, used, expandedByLLM, ordered, call, stage,
                response, log, comboCalls, authFailAt, source, token0, hist, rt, pl, rk>>

InitSearch ==
  /\ racer = NewRacer(0, RaceLimit)
  /\ variant = "lib"
  /\ pc = "idle"
  /\ req = NoReq
  /\ offers = <<>>
  /\ used = NoUsed
  /\ expandedByLLM = FALSE
  /\ ordered = <<>>
  /\ call = IdleCall
  /\ stage = <<>>
  /\ response = NoResponse
  /\ now = 0
  /\ log = <<>>
  /\ comboCalls = 0
  /\ authFailAt = -1
  /\ source = NoSource
  /\ hist = NoHist
  /\ cachedToken \in {NoToken} \cup {NewToken(0, e) : e \in ExpiresInSet}
  /\ token0 = cachedToken
  /\ sc = [pc |-> "on", calls |-> [k \in 1..MaxCalls |-> IdleSearch],
           issued |-> IF cachedToken.present THEN 1 ELSE 0,
           cacheId |-> IF cachedToken.present THEN 1 ELSE 0]
  /\ rt = NoRetry
  /\ pl = NoPlan
  /\ rk = NoRank

\* Date.now() moves on
ScTick ==
  /\ sc.pc = "on"
  /\ now < MaxNow
  /\ now' = now + 1
  /\ UNCHANGED <<searchRest, cachedToken, sc>>

\* searchFlightOffers is called: getAmadeusToken reads the clock and the cache and
\* either returns the cached token, so that the offers request goes out, or sends
\* the credential request
ScCall ==
  /\ sc.pc = "on"
  /\ \E k \in 1..MaxCalls :
       /\ sc.calls[k].pc = "idle"
       /\ LET c == [sc.calls[k] EXCEPT !.before = cachedToken, !.beforeId = sc.cacheId,
                                       !.at = now,
                                       !.afterFail = \E j \in 1..MaxCalls :
                                                       /\ sc.calls[j].pc = "failed"
                                                       /\ sc.calls[j].why = "auth"]
          IN sc' = [sc EXCEPT !.calls[k] =
                      IF NeedsRefresh(cachedToken, now)
                      THEN [c EXCEPT !.pc = "auth", !.fetched = TRUE, !.authReqs = @ + 1]
                      ELSE [c EXCEPT !.pc = "offers", !.got = cachedToken,
                                     !.gotId = sc.cacheId, !.bearer = sc.cacheId,
                                     !.offersReqs = @ + 1]]
  /\ UNCHANGED <<searchRest, cachedToken, now>>

\* mutant: a credential already in the cache is kept
Stored_KeepsFirst(cur, new) == IF cur.tok.present THEN cur ELSE new

\* cachedToken = { access_token: token, expires_at: exp }
Stored(cur, new) == new

\* the credential endpoint answers 2xx: the cache is replaced, the offers request
\* goes out with cachedToken.access_token
ScAuthOk ==
  /\ sc.pc = "on"
  /\ \E k \in 1..MaxCalls, e \in ExpiresInSet :
       LET st == Stored([tok |-> cachedToken, id |-> sc.cacheId],
                        [tok |-> NewToken(now, e), id |-> sc.issued + 1])
       IN /\ sc.calls[k].pc = "auth"
          /\ cachedToken' = st.tok
          /\ sc' = [sc EXCEPT !.issued = @ + 1, !.cacheId = st.id,
                              !.calls[k] = [@ EXCEPT !.pc = "offers", !.got = st.tok,
                                                     !.gotId = st.id,
                                                     !.bearer = st.id,
                                                     !.offersReqs = @ + 1]]
  /\ UNCHANGED <<searchRest, now>>

\* mutant: a failed refresh empties the cache
CacheAfterThrow_Clears(cur) == [tok |-> NoToken, id |-> 0]

\* fetchNewToken threw inside `const { token, exp } = await fetchNewToken()`: the
\* assignment to cachedToken on the next line is not reached
CacheAfterThrow(cur) == cur

\* fetchNewToken throws (the endpoint rejects the client, or must() finds no
\* AMADEUS_KEY / AMADEUS_SECRET): getAmadeusToken and searchFlightOffers reject
ScAuthFail ==
  /\ sc.pc = "on"
  /\ \E k \in 1..MaxCalls :
       LET st == CacheAfterThrow([tok |-> cachedToken, id |-> sc.cacheId])
       IN /\ sc.calls[k].pc = "auth"
          /\ cachedToken' = st.tok
          /\ sc' = [sc EXCEPT !.cacheId = st.id,
                              !.calls[k] = [@ EXCEPT !.pc = "failed", !.why = "auth"]]
  /\ UNCHANGED <<searchRest, now>>

\* the offers request ends
ScOffersEnd ==
  /\ sc.pc = "on"
  /\ \E k \in 1..MaxCalls, out \in OfferEnds :
       /\ sc.calls[k].pc = "offers"
       /\ sc' = [sc EXCEPT !.calls[k] = SettleOffers(@, out)]
  /\ UNCHANGED <<searchRest, cachedToken, now>>

NextSearch == ScTick \/ ScCall \/ ScAuthOk \/ ScAuthFail \/ ScOffersEnd

SpecSearch == InitSearch /\ [][NextSearch]_vars

(***************************************************************************)
(* The combo validation on its own: any answer of the model, either cap.   *)
(***************************************************************************)
\* what a worker searches with for candidate c: rr = ensureReturnAfterDepart(..)
SearchDates(c) ==
  [departDate |-> c.depart, returnDate |-> ensureReturnAfterDepart(c.depart, c.ret)]

planRest == <<racer, variant, pc, req, offers, used, expandedByLLM, ordered, call, stage,
              response, cachedToken, now, log, comboCalls, authFailAt, source, token0, hist,
              rt, sc, rk>>

InitPlan ==
  /\ RestIdle
  /\ \E raw \in RawOutputs, cap \in {ValidateCap, ValidateCapRoute} :
       pl = [pc |-> "raw", raw |-> raw, cap |-> cap, out |-> <<>>, sent |-> <<>>]
  /\ rt = NoRetry
  /\ sc = NoSearch
  /\ rk = NoRank

\* normalize + validate, then what each surviving candidate is searched with
PlValidate ==
  /\ pl.pc = "raw"
  /\ LET out == ValidateCombos(pl.raw, pl.cap)
     IN pl' = [pl EXCEPT !.pc = "done", !.out = out,
                         !.sent = [k \in 1..Len(out) |-> SearchDates(out[k])]]
  /\ UNCHANGED planRest

NextPlan == PlValidate

SpecPlan == InitPlan /\ [][NextPlan]_vars

(***************************************************************************)
(* The ranking on its own.  Inputs: lists of any length up to MaxOffers    *)
(* that repeat a short pattern of (grandTotal, segment count) rows, short  *)
(* lists with a grand total that is not a number, and single offers with   *)
(* every duration string put together from the parts below.                *)
(***************************************************************************)
MaxOffers == 14
MaxSeed == 3
MaxNaNLen == 3

Row(g, n) == [grandTotal |-> g, segs |-> n]

NumericRows == {Row(3, 1), Row(3, 2), Row(5, 1), Row(5, 0), Row(AbsentTotal, 1)}

AllRows == NumericRows \cup {Row(NonNumericTotal, 1)}

SeedsOver(rows, maxLen) == UNION {[1..len -> rows] : len \in 1..maxLen}

\* n offers numbered in input order, their rows the seed repeated
Cycle(seed, n) ==
  [k \in 1..n |-> [id |-> k,
                   grandTotal |-> seed[((k - 1) % Len(seed)) + 1].grandTotal,
                   segs |-> seed[((k - 1) % Len(seed)) + 1].segs,
                   duration |-> Iso(<<"P", "T", "2", "H">>)]]

NumericInputs == {Cycle(seed, n) : seed \in SeedsOver(NumericRows, MaxSeed), n \in 0..MaxOffers}

MalformedInputs ==
  {Cycle(seed, Len(seed)) :
     seed \in {sd \in SeedsOver(AllRows, MaxNaNLen) :
                 \E k \in 1..Len(sd) : sd[k].grandTotal = NonNumericTotal}}

Durations ==
  {NoDuration} \cup
  {Iso(pre \o hp \o mp \o sp) :
     pre \in {<<>>, <<"P", "T">>, <<"P", "1", "D", "T">>, <<"P">>},
     hp \in {<<>>, <<"2", "H">>, <<"0", "H">>, <<"1", ".", "5", "H">>},
     mp \in {<<>>, <<"30", "M">>, <<"0", "M">>},
     sp \in {<<>>, <<"15", "S">>}}

DurationInputs ==
  {<<[id |-> 1, grandTotal |-> 5, segs |-> 1, duration |-> d]>> : d \in Durations}

Perms(sq) ==
  {[k \in 1..Len(sq) |-> sq[f[k]]] :
     f \in {g \in [1..Len(sq) -> 1..Len(sq)] :
              \A i, j \in 1..Len(sq) : i # j => g[i] # g[j]}}

\* What results.sort(..).slice(0, 12) can leave.  With a NaN price the comparator
\* is not consistent and the order is whatever the engine's sort makes of it.
RankOutcomes(offs) ==
  IF \A k \in 1..Len(offs) : ToPrice(offs[k].grandTotal) # NaN
  THEN {simplifyAndRank(offs)}
  ELSE {Take(pm, RankCap) : pm \in Perms([k \in 1..Len(offs) |-> Simplify(offs[k])])}

rankRest == <<racer, variant, pc, req, offers, used, expandedByLLM, ordered, call, stage,
              response, cachedToken, now, log, comboCalls, authFailAt, source, token0, hist,
              rt, sc, pl>>

InitRank ==
  /\ RestIdle
  /\ \E offs \in NumericInputs \cup MalformedInputs \cup DurationInputs :
       rk = [pc |-> "in", offs |-> offs, simp |-> <<>>, out |-> <<>>]
  /\ rt = NoRetry
  /\ sc = NoSearch
  /\ pl = NoPlan

\* simplifyAndRank(offers)
RkRank ==
  /\ rk.pc = "in"
  /\ \E out \in RankOutcomes(rk.offs) :
       rk' = [rk EXCEPT !.pc = "done", !.out = out,
                        !.simp = [k \in 1..Len(rk.offs) |-> Simplify(rk.offs[k])]]
  /\ UNCHANGED rankRest

NextRank == RkRank

SpecRank == InitRank /\ [][NextRank]_vars

(***************************************************************************)
(* Properties                                                              *)
(***************************************************************************)
Outcome == pc = "done" /\ response.kind = "outcome"

Missed == {"empty", "http", "abort", "authFail"}

LogOf(phases) == {k \in 1..Len(log) : log[k].phase \in phases}

EveryCandidateMissed == \A k \in 1..Len(ordered) : stage[k] \in Missed

\* C1: when the primary search returns offers, the outcome reports the request's
\* own origin, destination, depart and return date as used, expandedByLLM is
\* false, and neither the combo proposer nor any candidate or economy search
\* was called.
C1_PrimaryHit ==
  hist.primary = "offers" =>
    /\ Outcome
    /\ response.results # <<>>
    /\ response.used.origin = req.origin
    /\ response.used.destination = req.destination
    /\ response.used.departDate = req.depart
    /\ response.used.returnDate = req.ret
    /\ response.expandedByLLM = FALSE
    /\ comboCalls = 0
    /\ LogOf({"combo", "econ"}) = {}

C1_Witness ==
  /\ hist.primary = "offers"
  /\ req.origin = "JFK"
  /\ req.ret # 0
  /\ Len(response.results) = 2

C3_DowngradeAnnotated ==
  hist.econ = "offers" =>
    /\ Outcome
    /\ req.cabin = "BUSINESS"
    /\ source.phase = "econ"
    /\ response.results # <<>>
    /\ response.used.note = NoteEconomy

C3_Witness ==
  /\ hist.econ = "offers"
  /\ Outcome
  /\ Len(ordered) > 0
  /\ response.used.note = NoteEconomy

\* C4: an economy search is issued only after the primary search and every
\* candidate missed and only for cabin BUSINESS; there is at most one; it is on
\* the request's origin, destination and dates with cabin ECONOMY; if it fails
\* the answer is the empty outcome, not an error.
C4_DowngradeOnlyBusiness ==
  /\ Cardinality(LogOf({"econ"})) <= 1
  /\ \A k \in LogOf({"econ"}) :
       /\ req.cabin = "BUSINESS"
       /\ hist.primary = "empty"
       /\ EveryCandidateMissed
       /\ hist.firstHit = 0
       /\ log[k] = LogEntry("econ", 0, req.origin, req.destination, req.depart, req.ret,
                            "ECONOMY")
  /\ (pc = "downgrade" => Cardinality(LogOf({"econ"})) = 1)
  /\ (hist.econ \in Missed => Outcome /\ response.results = <<>>)

C4_Witness ==
  /\ hist.econ \in {"http", "abort", "authFail"}
  /\ Outcome
  /\ Len(ordered) > 0
  /\ req.ret # 0

\* C5: if the primary search fails with a non-auth error (aborted by the timeout,
\* or a non-2xx response), the request enters Expanding and ends in an outcome,
\* not in an error response.
C5_PrimaryFailureAbsorbed ==
  (pc = "done" /\ hist.primary \in {"http", "abort"}) =>
    /\ response.kind = "outcome"
    /\ comboCalls >= 1

\* C6: once token acquisition has failed in any phase, no candidate or economy
\* search is started afterwards and the request ends in an error response, not
\* in an outcome.
C6_AuthFailureAborts ==
  authFailAt # -1 =>
    /\ \A k \in LogOf({"combo", "econ"}) : k <= authFailAt
    /\ (pc = "done" => response.kind = "error")

\* C7: a request whose origin, destination or depart is missing after
\* normalisation is answered with status 400, and no search, no combo proposal
\* and no change of the token cache happens for it.
C7_MissingFieldRejected ==
  (hist.normalized /\ (req.origin = "" \/ req.destination = "" \/ req.depart = 0)) =>
    /\ pc = "done"
    /\ response = ErrorResponse(400)
    /\ log = <<>>
    /\ comboCalls = 0
    /\ racer.called = FALSE
    /\ cachedToken = token0

C7_Witness ==
  /\ hist.normalized
  /\ req.origin # ""
  /\ req.destination # ""
  /\ req.depart = 0
  /\ response.status = 400
  /\ token0.present

\* C8: in runWithLimit at most `limit` workers are started and unsettled at any
\* time, and the workers are started in input order.
C8_BoundedInOrder ==
  /\ Cardinality(InFlight(racer)) <= racer.limit
  /\ racer.startOrder = [k \in 1..Len(racer.startOrder) |-> k]
  /\ \A k \in 1..racer.n : (racer.status[k] # "unstarted") <=> (k <= Len(racer.startOrder))

C8_Witness ==
  /\ racer.limit = 2
  /\ Cardinality(InFlight(racer)) = 2
  /\ racer.i = 4
  /\ racer.i < racer.n

C9_Scenario ==
  /\ racer.n = 6
  /\ racer.limit = 4
  /\ \A k \in 1..4 : racer.status[k] = "hung"

\* nothing that was started can still settle
RacerQuiescent == racer.called /\ \A k \in 1..racer.n : racer.status[k] # "running"

\* C9 as stated: with limit 4 and 6 candidates of which #1-#4 never settle, once
\* every other started worker has settled the race has returned candidate #5's
\* result, and #6 was never started.
C9_FifthWins ==
  (C9_Scenario /\ RacerQuiescent) => racer.result = 5 /\ racer.status[6] = "unstarted"

\* C9 (amended): with limit 4 and 6 candidates of which #1-#4 never settle,
\* candidate #5 is never started, the race never returns, and #6 is never
\* started either.
C9_FifthNeverStarted ==
  C9_Scenario =>
    /\ racer.status[5] = "unstarted"
    /\ racer.status[6] = "unstarted"
    /\ racer.result = Pending

C9_Witness == C9_Scenario /\ RacerQuiescent

\* C10: the race is won by the first worker to settle successfully in completion
\* order, whatever its position in the input; the answer of Expanding is that
\* candidate's, also while an earlier candidate is still in flight.
C10_FirstSuccessWins ==
  /\ (racer.done => racer.result = hist.firstHit)
  /\ (hist.firstHit # 0 /\ pc = "done" =>
        /\ source = [phase |-> "combo", idx |-> hist.firstHit]
        /\ response.used = UsedOfCombo(ordered[hist.firstHit]))

C10_Witness ==
  /\ variant = "lib"
  /\ Outcome
  /\ source.phase = "combo"
  /\ \E j \in 1..(source.idx - 1) :
       /\ racer.status[j] = "running"
       /\ score(ordered[j], req) < score(ordered[source.idx], req)

\* C11: runWithLimit has returned null exactly when it was called and every item
\* was started and has settled without a truthy result (none at all for an
\* empty list); never while an item is unstarted or in flight, never after a
\* success.
C11_NullIffAllFailed ==
  (racer.result = NullResult) <=>
    (racer.called /\ \A k \in 1..racer.n : racer.status[k] \in {"null", "rejected"})

C11_Witness ==
  /\ racer.result = NullResult
  /\ racer.n = 3
  /\ racer.limit = 2
  /\ \E k \in 1..racer.n : racer.status[k] = "rejected"
  /\ \E k \in 1..racer.n : racer.status[k] = "null"


\* the failures the retry contract calls transient
TransientKinds == {"timeout", "abort", "reset", "dns", "http503", "http504"}

AllTimedOut == \A k \in 1..Len(rt.raw) : rt.raw[k] = AbortErr

C13_OnlyTransientRetried ==
  \A k \in 1..Len(rt.errs) :
    rt.errs[k].kind \notin TransientKinds
      => (rt.pc = "threw" /\ k = Len(rt.errs) /\ rt.invoked = k)

\* C14: an attempt still running has not outlived its timeout.
C14_AttemptBounded ==
  rt.pc = "running" => rt.elapsed <= TimeoutTicks

\* C15: a returned value is one an attempt returned; a thrown error is the error
\* of the last attempt made, and every attempt made has failed.
C15_LastErrorVerbatim ==
  /\ rt.pc = "returned" => (rt.result \in rt.vals /\ rt.result = rt.invoked)
  /\ rt.pc = "threw" =>
       /\ Len(rt.errs) = rt.invoked
       /\ rt.invoked >= 1
       /\ rt.lastErr = rt.errs[Len(rt.errs)]
       /\ rt.vals = {}

C15_Witness ==
  /\ rt.pc = "threw"
  /\ rt.invoked = 3
  /\ rt.errs[1] # rt.errs[3]
  /\ rt.errs[2] # rt.errs[3]



Entered(c) == c.pc # "idle"

PastToken(c) == c.pc \in {"offers", "ok"} \/ (c.pc = "failed" /\ c.why # "auth")

\* C16: a call of getAmadeusToken goes to the credential endpoint exactly when, on
\* entry, nothing is cached or the cached expires_at minus 30 is <= now; then the
\* token it returns is a newly issued one, put in the cache; otherwise it makes no
\* credential request and returns the cached token, the cache as it was.
C16_RefreshIffStale ==
  \A k \in 1..MaxCalls :
    LET c == sc.calls[k]
        stale == ~c.before.present \/ c.before.expires_at - 30 <= c.at
    IN Entered(c) =>
         /\ c.fetched <=> stale
         /\ c.authReqs = IF stale THEN 1 ELSE 0
         /\ ~stale => (c.got = c.before /\ c.gotId = c.beforeId)
         /\ (stale /\ PastToken(c)) => (c.got.present /\ c.gotId > c.beforeId)

C16_Witness ==
  \E j, k \in 1..MaxCalls :
    /\ sc.calls[j].before.present
    /\ sc.calls[j].before.expires_at - 30 = sc.calls[j].at
    /\ sc.calls[j].fetched
    /\ PastToken(sc.calls[j])
    /\ Entered(sc.calls[k])
    /\ ~sc.calls[k].fetched

\* C17: a searchFlightOffers call sends at most one offers request, exactly one
\* once it has its token, carrying the token getAmadeusToken returned; a non-2xx
\* answer, 401 included, ends the call with no further offers request and no
\* credential request beyond the one getAmadeusToken needed on entry; a call whose
\* token acquisition failed has sent no offers request.
C17_OneRoundTrip ==
  \A k \in 1..MaxCalls :
    LET c == sc.calls[k]
    IN /\ c.offersReqs <= 1
       /\ PastToken(c) => (c.offersReqs = 1 /\ c.bearer = c.gotId /\ c.bearer > 0)
       /\ (c.pc = "failed" /\ c.why = "auth") => c.offersReqs = 0
       /\ c.pc = "auth" => c.offersReqs = 0
       /\ (c.pc = "failed" /\ c.why \in {"http401", "http500"}) =>
            (c.offersReqs = 1 /\ c.authReqs = IF c.gotId > c.beforeId THEN 1 ELSE 0)

C17_Witness ==
  \E j, k \in 1..MaxCalls :
    /\ sc.calls[j].pc = "failed"
    /\ sc.calls[j].why = "http401"
    /\ sc.calls[j].authReqs = 0
    /\ sc.calls[k].pc = "failed"
    /\ sc.calls[k].why = "auth"



\* depart is a date not before today, ret is absent or not before depart
DatesOk(c) == c.depart >= Today /\ (c.ret = 0 \/ c.ret >= c.depart)

\* C18: every candidate the validation lets through has a parseable depart date
\* not before today and no return date before its depart date, and carries the
\* dates of a proposed candidate that already met both conditions: a proposal
\* with a past or unparseable depart, or a return before its depart, has no
\* image in the output, with or without its return date; the search for a
\* surviving candidate uses its return date as it is.
C18_BadDatesDropped ==
  pl.pc = "done" =>
    /\ \A k \in 1..Len(pl.out) :
         /\ pl.out[k].depart # BadDate
         /\ DatesOk(pl.out[k])
         /\ \E j \in 1..Len(pl.raw) :
              /\ DatesOk(pl.raw[j])
              /\ pl.raw[j].depart = pl.out[k].depart
              /\ pl.raw[j].ret = pl.out[k].ret
         /\ pl.sent[k].returnDate = pl.out[k].ret
    /\ Len(pl.out) <= Cardinality({j \in 1..Len(pl.raw) : DatesOk(pl.raw[j])})

C18_Witness ==
  /\ pl.pc = "done"
  /\ Len(pl.out) = 1
  /\ \E j \in 1..Len(pl.raw) : pl.raw[j].depart \in {BadDate, Today - 1}
  /\ \E j \in 1..Len(pl.raw) : pl.raw[j].ret # 0 /\ pl.raw[j].ret < pl.raw[j].depart



\* a is not after b in (price ascending, stops ascending), prices being numbers
NotAfter(a, b) ==
  /\ a.price # NaN
  /\ b.price # NaN
  /\ a.price < b.price \/ (a.price = b.price /\ a.stops <= b.stops)

SameKeys(a, b) == a.price = b.price /\ a.stops = b.stops

\* a comes before b in the fully sorted list: smaller keys, or the same keys and
\* earlier in the input
Precedes(a, b) ==
  \/ a.price < b.price
  \/ a.price = b.price /\ a.stops < b.stops
  \/ SameKeys(a, b) /\ a.id < b.id

NumericOnly == \A k \in 1..Len(rk.simp) : rk.simp[k].price # NaN

\* C19: the ranking of n offers has min(n, 12) results, each not after the next
\* in (price, stops), results with the same price and stops in input order, and
\* no offer left out comes before a result in the sorted order.
C19_RankContract ==
  rk.pc = "done" =>
    /\ Len(rk.out) = (IF Len(rk.offs) <= 12 THEN Len(rk.offs) ELSE 12)
    /\ \A k \in 1..Len(rk.out) : \E j \in 1..Len(rk.simp) : rk.simp[j] = rk.out[k]
    /\ \A k \in 1..(Len(rk.out) - 1) : NotAfter(rk.out[k], rk.out[k + 1])
    /\ \A j, k \in 1..Len(rk.out) :
         (j < k /\ SameKeys(rk.out[j], rk.out[k])) => rk.out[j].id < rk.out[k].id
    /\ \A j \in 1..Len(rk.simp) :
         (\A k \in 1..Len(rk.out) : rk.out[k].id # rk.simp[j].id)
           => \A k \in 1..Len(rk.out) : ~Precedes(rk.simp[j], rk.out[k])

\* the same for offers whose grand totals are all numbers or absent
C19_NumericRanked == NumericOnly => C19_RankContract

HasPiece(toks, t) == \E i \in 1..Len(toks) : toks[i] = t

PTPrefixed(d) ==
  d.kind = "string" /\ Len(d.toks) >= 2 /\ d.toks[1] = "P" /\ d.toks[2] = "T"

\* C20: the duration text of a result is empty when the offer's duration is
\* absent, does not start with PT, or starts with PT and has neither an hours
\* nor a minutes part; PT<h>H<m>M, PT<h>H and PT<m>M render as "<h>h <m>m",
\* "<h>h" and "<m>m".
C20_DurationText ==
  rk.pc = "done" =>
    \A k \in 1..Len(rk.out) : \A j \in 1..Len(rk.offs) :
      rk.offs[j].id = rk.out[k].id =>
        LET d == rk.offs[j].duration
            text == rk.out[k].duration
        IN /\ d.kind = "absent" => text = <<>>
           /\ (d.kind = "string" /\ ~PTPrefixed(d)) => text = <<>>
           /\ (PTPrefixed(d) /\ ~HasPiece(d.toks, "H") /\ ~HasPiece(d.toks, "M"))
                => text = <<>>
           /\ (Len(d.toks) = 6 /\ PTPrefixed(d) /\ d.toks[4] = "H" /\ d.toks[6] = "M"
               /\ d.toks[3] \in {"0", "2"} /\ d.toks[5] \in {"0", "30"})
                => text = <<d.toks[3], "h", " ", d.toks[5], "m">>
           /\ (Len(d.toks) = 4 /\ PTPrefixed(d) /\ d.toks[4] = "H" /\ d.toks[3] \in {"0", "2"})
                => text = <<d.toks[3], "h">>
           /\ (Len(d.toks) = 4 /\ PTPrefixed(d) /\ d.toks[4] = "M" /\ d.toks[3] \in {"0", "30"})
                => text = <<d.toks[3], "m">>

\* C21: each result's price is the offer's grand total when that is a number and
\* 0 when it is absent or not a number; every price is a number.
C21_PriceNumeric ==
  rk.pc = "done" =>
    \A j \in 1..Len(rk.offs) :
      /\ rk.simp[j].price # NaN
      /\ rk.simp[j].price =
           (IF rk.offs[j].grandTotal \in {AbsentTotal, NonNumericTotal}
            THEN 0 ELSE rk.offs[j].grandTotal)

\* C22: every searchFlightOffers call of a request has no return date or one not
\* before its depart date; a request whose return date is before its depart date
\* is not answered 400 for it: its primary search goes out with no return date,
\* and so does its economy search, and an outcome that reports the request's own
\* query reports no return date.
C22_ReturnNotBeforeDepart ==
  /\ \A k \in 1..Len(log) :
       log[k].returnDate = 0
         \/ (log[k].returnDate # BadDate /\ log[k].returnDate >= log[k].departDate)
  /\ (hist.normalized /\ hist.ret0 > 0 /\ hist.ret0 < req.depart
      /\ req.origin # "" /\ req.destination # "") =>
       /\ response.status # 400
       /\ Len(log) >= 1
       /\ \A k \in 1..Len(log) : log[k].phase \in {"primary", "econ"} => log[k].returnDate = 0
       /\ (Outcome /\ source.phase # "combo") => response.used.returnDate = 0

C22_Witness ==
  /\ Outcome
  /\ hist.ret0 = Today
  /\ req.depart = Today + 1
  /\ response.used.returnDate = 0
  /\ \E k \in 1..Len(log) : log[k].phase = "econ"
  /\ \E k \in 1..Len(log) : log[k].phase = "combo" /\ log[k].returnDate # 0

PhaseRank(p) == CASE p = "primary" -> 1 [] p = "combo" -> 2 [] p = "econ" -> 3 [] OTHER -> 0

PcRank(p) ==
  CASE p = "idle" -> 0
    [] p = "primary" -> 1
    [] p = "combos" -> 2
    [] p = "racing" -> 3
    [] p = "loop" -> 3
    [] p = "downgrade" -> 4
    [] p = "done" -> 5
    [] OTHER -> 6

\* the searches of a request start in phase order, the proposer is called at most
\* once and only after the primary search came back empty, at most one economy
\* search is made, and offers found end the request
PhasesInOrder ==
  /\ \A j, k \in 1..Len(log) : j < k => PhaseRank(log[j].phase) <= PhaseRank(log[k].phase)
  /\ comboCalls <= 1
  /\ Cardinality(LogOf({"econ"})) <= 1
  /\ Cardinality(LogOf({"primary"})) <= 2
  /\ LogOf({"combo"}) # {} => (comboCalls = 1 /\ hist.primary = "empty")
  /\ LogOf({"econ"}) # {} => (comboCalls = 1 /\ hist.firstHit = 0)
  /\ source.phase = "primary" => (LogOf({"combo", "econ"}) = {} /\ comboCalls = 0)
  /\ source.phase = "combo" => LogOf({"econ"}) = {}
  /\ offers # <<>> => pc = "done"

\* C23: the handler's position only moves forward through Primary, Expanding
\* (proposer, then candidates), Downgrading, Done, so no phase is entered twice
\* and none after a later one; the proposer is called at most once; once a search
\* has returned offers no search of a later phase is started.
C23_PhaseOrder ==
  /\ []PhasesInOrder
  /\ [][pc' # pc => PcRank(pc') > PcRank(pc)]_vars

C23_Witness ==
  /\ Outcome
  /\ source.phase = "econ"
  /\ Cardinality(LogOf({"primary"})) = 2
  /\ Cardinality(LogOf({"combo"})) >= 2
  /\ Cardinality(LogOf({"econ"})) = 1

\* searchFlightOffers calls that are started and not settled
InFlightCalls ==
  (IF call.stage \in {"auth", "fetch"} THEN 1 ELSE 0)
  + Cardinality({k \in 1..Len(stage) : stage[k] \in {"auth", "fetch"}})

CandidatesInFlight == Cardinality({k \in 1..Len(stage) : stage[k] \in {"auth", "fetch"}})

\* C24: never more than 4 searches are in flight; while the primary or the economy
\* search is in flight it is the only one, and none of the candidates' searches is
\* still running when the economy search is started.
C24_AtMostFourInFlight ==
  /\ InFlightCalls <= 4
  /\ pc \in {"primary", "downgrade"} => (InFlightCalls = 1 /\ CandidatesInFlight = 0)
  /\ LogOf({"econ"}) # {} => \A k \in 1..Len(stage) : stage[k] \notin {"idle", "auth", "fetch"}

C24_Witness ==
  /\ variant = "lib"
  /\ pc = "racing"
  /\ CandidatesInFlight = 4
  /\ racer.n > 4
  /\ \E k \in 1..Len(stage) : stage[k] \in {"http", "abort"}

FromExpanding == Outcome /\ source.phase = "combo"

\* C25: when the ranked offers come from a candidate, used carries that
\* candidate's origin, destination, depart and return date, the candidate is the
\* first whose search returned offers, the results are the ranking of the offers
\* taken from it, and expandedByLLM is true; nothing that happens after the answer,
\* a later candidate's search ending with offers or failing, changes the answer or
\* the handler's offers and used.
C25_WinnerReported ==
  /\ [](FromExpanding =>
          /\ source.idx \in 1..Len(ordered)
          /\ stage[source.idx] = "offers"
          /\ source.idx = hist.firstHit
          /\ response.used.origin = ordered[source.idx].origin
          /\ response.used.destination = ordered[source.idx].destination
          /\ response.used.departDate = ordered[source.idx].depart
          /\ response.used.returnDate = ordered[source.idx].ret
          /\ response.used.note = ""
          /\ response.expandedByLLM
          /\ offers # <<>>
          /\ response.results = simplifyAndRank(offers)
          /\ used = response.used)
  /\ [][pc = "done" => (response' = response /\ used' = used /\ offers' = offers
                         /\ source' = source)]_vars

C25_Witness ==
  /\ FromExpanding
  /\ variant = "lib"
  /\ source.idx # 1
  /\ response.used.returnDate # 0
  /\ \E k \in 1..Len(stage) : k # source.idx /\ stage[k] = "offers"
  /\ \E k \in 1..Len(stage) : stage[k] \in {"http", "abort"}

\* the score of a started candidate search against the request
ScoreOfEntry(e) ==
  (IF e.origin = req.origin THEN -2 ELSE 0)
  + (IF e.destination = req.destination THEN -2 ELSE 0)
  + (IF e.departDate >= req.depart THEN e.departDate - req.depart
     ELSE req.depart - e.departDate)

KeepsEndpointsOneDay(e) ==
  /\ e.origin = req.origin
  /\ e.destination = req.destination
  /\ e.departDate \in {req.depart - 1, req.depart + 1}

ChangesEndpointSameDay(e) ==
  /\ e.origin # req.origin \/ e.destination # req.destination
  /\ e.departDate = req.depart

\* C26: the candidate searches are started in non-decreasing order of score, at
\* most 12 of them; one that keeps both endpoints and shifts the date by a day
\* is started before one that changes an endpoint and keeps the date.
C26_StartedByScore ==
  /\ \A j, k \in LogOf({"combo"}) : j < k => ScoreOfEntry(log[j]) <= ScoreOfEntry(log[k])
  /\ Cardinality(LogOf({"combo"})) <= 12
  /\ \A j, k \in LogOf({"combo"}) :
       (KeepsEndpointsOneDay(log[j]) /\ ChangesEndpointSameDay(log[k])) => j < k

C26_Witness ==
  /\ variant = "lib"
  /\ Cardinality(LogOf({"combo"})) = 12
  /\ \E j \in LogOf({"combo"}) : KeepsEndpointsOneDay(log[j])
  /\ \E k \in LogOf({"combo"}) : ChangesEndpointSameDay(log[k])
  /\ \E j, k \in LogOf({"combo"}) : ScoreOfEntry(log[j]) < ScoreOfEntry(log[k])


\* C27: withRetry of the utility sleeps backoffMs * k before the k-th retry and
\* starts it only after that sleep; it does not sleep after the last attempt or
\* after a failure that is not transient, and its attempts never overlap.
C27_LinearBackoff ==
  rt.pc # "off" /\ rt.impl = "util" =>
    /\ rt.open <= 1
    /\ rt.open = 1 <=> rt.pc = "running"
    /\ rt.pc \in {"running", "returned", "threw"} =>
         /\ Len(rt.slept) = rt.invoked - 1
         /\ \A k \in 1..Len(rt.slept) : rt.slept[k] = BackoffTicks * k
    /\ rt.pc = "backoff" =>
         /\ Len(rt.slept) = rt.invoked
         /\ rt.invoked < rt.attempts
         /\ Transient(rt.lastErr)
         /\ \A k \in 1..(Len(rt.slept) - 1) : rt.slept[k] = BackoffTicks * k
         /\ rt.slept[rt.invoked] <= BackoffTicks * rt.invoked

C27_Witness ==
  /\ rt.pc = "threw"
  /\ rt.impl = "util"
  /\ rt.invoked = 3
  /\ rt.slept = <<BackoffTicks, 2 * BackoffTicks>>
  /\ ~Transient(rt.lastErr)


\* C28: once runWithLimit has a winner no further item is started, and whatever
\* the workers still running do, the value it resolved with stays the same; a
\* value it resolved with is never replaced.
C28_DecidedOnce ==
  /\ [](racer.done => racer.result \in 1..racer.n /\ racer.result = racer.firstOk)
  /\ [][/\ racer.done =>
             /\ racer'.done
             /\ racer'.i = racer.i
             /\ racer'.startOrder = racer.startOrder
             /\ racer'.result = racer.result
        /\ racer.result # Pending => racer'.result = racer.result]_vars

C28_Witness ==
  /\ racer.done
  /\ racer.i < racer.n
  /\ racer.active + 2 <= racer.limit
  /\ \E k \in 1..racer.n : k # racer.result /\ racer.status[k] = "ok"


\* searches of candidates in flight, whichever handler runs them
ExpandingInFlight ==
  CandidatesInFlight
  + (IF call.phase = "combo" /\ call.stage \in {"auth", "fetch"} THEN 1 ELSE 0)

Expanding == pc \in {"racing", "loop"}

UnstartedRemain ==
  IF variant = "lib" THEN racer.i < racer.n ELSE call.idx < Len(ordered)

NothingSettled == \A k \in 1..Len(stage) : stage[k] \in {"idle", "auth", "fetch"}

\* runWithLimit keeps limit workers in flight while it is undecided and has items left
RacerSaturated ==
  (racer.called /\ racer.result = Pending /\ racer.i < racer.n)
    => Cardinality(InFlight(racer)) = racer.limit

\* C29: while the race is undecided and a candidate is still unstarted, exactly
\* limit searches are in flight, and the expansion begins with min(4, number of
\* candidates) searches in flight.
C29_ConcurrentUpToLimit ==
  /\ RacerSaturated
  /\ Expanding /\ UnstartedRemain => ExpandingInFlight = RaceLimit
  /\ Expanding /\ NothingSettled =>
       ExpandingInFlight = (IF Len(ordered) < RaceLimit THEN Len(ordered) ELSE RaceLimit)


FailedOutcomes == {"authFail", "http", "abort"}

\* candidate k's search fails in this step
CandidateFails(k) == stage[k] \notin FailedOutcomes /\ stage'[k] \in FailedOutcomes

\* the next candidate in order is started in this step
NextCandidateStarted ==
  IF variant = "lib"
  THEN /\ racer'.i = racer.i + 1
       /\ stage'[racer.i + 1] \in {"auth", "fetch"}
       /\ log' = Append(log, ComboEntry(racer.i + 1, ordered[racer.i + 1], req))
  ELSE /\ call'.phase = "combo"
       /\ call'.idx = call.idx + 1
       /\ call'.stage \in {"auth", "fetch"}
       /\ log' = Append(log, ComboEntry(call.idx + 1, ordered[call.idx + 1], req))

\* C30: a candidate's search that fails (timeout, error status, thrown error) is
\* a miss: no offers are taken from it, its slot goes to the next candidate in
\* order when the expansion is undecided and one is left, and the request is
\* never answered with an error because of it.
C30_CandidateFailureIsMiss ==
  /\ []((\E k \in 1..Len(stage) : stage[k] \in FailedOutcomes) => response.kind # "error")
  /\ [][\A k \in 1..Len(stage) :
          CandidateFails(k) =>
            /\ offers' = offers
            /\ used' = used
            /\ response'.kind # "error"
            /\ (Expanding /\ UnstartedRemain) =>
                 (NextCandidateStarted /\ ExpandingInFlight' = ExpandingInFlight /\ pc' = pc)
            /\ (Expanding /\ ~UnstartedRemain /\ ExpandingInFlight > 1) =>
                 (ExpandingInFlight' = ExpandingInFlight - 1 /\ pc' = pc)
            /\ (Expanding /\ ~UnstartedRemain /\ ExpandingInFlight = 1) =>
                 pc' \in {"downgrade", "done"}
            /\ ~Expanding => (response' = response /\ pc' = pc)]_vars

C30_Witness ==
  /\ pc = "done"
  /\ response.kind # "error"
  /\ source.phase = "combo"
  /\ source.idx > RaceLimit
  /\ \E k \in 1..Len(stage) : k < source.idx /\ stage[k] = "abort"
  /\ \E k \in 1..Len(stage) : k < source.idx /\ stage[k] = "http"


\* C31: when the combo proposer throws or answers with a text that cannot be
\* decoded, no candidate is searched, the request goes on to the economy search
\* or ends, and its answer is an outcome with no results or with the economy
\* search's results, never an error.
C31_ProposerFailureIsMiss ==
  hist.proposer # "" =>
    /\ response.kind # "error"
    /\ ordered = <<>>
    /\ LogOf({"combo"}) = {}
    /\ pc \in {"downgrade", "done"}
    /\ pc = "done" =>
         /\ response.kind = "outcome"
         /\ response.results # <<>> => hist.econ = "offers"


\* the call found nothing usable in the cache when it entered
FoundStale(c) == ~c.before.present \/ c.before.expires_at - 30 <= c.at

\* number of the credential in the cache when the calls began
FirstId == IF token0.present THEN 1 ELSE 0

\* C32: calls of getAmadeusToken that overlap while nothing usable is cached each
\* send their own credential request, each returns a credential issued after it
\* entered, and the cache then holds one credential, token and expiry of the same
\* fetch, which is one of those the calls fetched; once filled it is never empty.
C32_ConcurrentRefresh ==
  /\ \A k \in 1..MaxCalls :
       LET c == sc.calls[k]
       IN (Entered(c) /\ FoundStale(c)) =>
            /\ c.authReqs = 1
            /\ PastToken(c) => (c.got.present /\ c.gotId > c.beforeId /\ c.gotId <= sc.issued)
  /\ sc.cacheId > FirstId =>
       /\ cachedToken.present
       /\ \E k \in 1..MaxCalls :
            /\ sc.calls[k].fetched
            /\ sc.calls[k].gotId = sc.cacheId
            /\ sc.calls[k].got = cachedToken
  /\ sc.cacheId = FirstId => cachedToken = token0
  /\ token0.present => cachedToken.present

C32_Witness ==
  \E j, k \in 1..MaxCalls :
    /\ j # k
    /\ FoundStale(sc.calls[j]) /\ FoundStale(sc.calls[k])
    /\ sc.calls[j].beforeId = sc.calls[k].beforeId
    /\ PastToken(sc.calls[j]) /\ PastToken(sc.calls[k])
    /\ sc.calls[j].gotId # sc.calls[k].gotId
    /\ sc.calls[j].got # sc.calls[k].got
    /\ sc.cacheId = sc.calls[k].gotId
    /\ cachedToken = sc.calls[k].got


AuthFailed(c) == c.pc = "failed" /\ c.why = "auth"

\* C33: when the credential request of a call fails, the call fails without a
\* token and the cache stays as it was, a stale credential included; a call that
\* comes after it and finds the cache as the failed call found it sends a
\* credential request of its own.
C33_FailedRefreshKeepsCache ==
  /\ [](\A k \in 1..MaxCalls :
          LET c == sc.calls[k]
          IN /\ AuthFailed(c) =>
                  (c.got = NoToken /\ c.gotId = 0 /\ c.offersReqs = 0 /\ c.authReqs = 1)
             /\ (c.afterFail /\ \E j \in 1..MaxCalls :
                                   AuthFailed(sc.calls[j]) /\ sc.calls[j].before = c.before) =>
                  (c.fetched /\ c.authReqs = 1))
  /\ [][\A k \in 1..MaxCalls :
          (sc.calls[k].pc = "auth" /\ sc'.calls[k].pc = "failed") =>
            (cachedToken' = cachedToken /\ sc'.cacheId = sc.cacheId /\ sc'.issued = sc.issued)]_vars

C33_Witness ==
  \E j, k \in 1..MaxCalls :
    /\ AuthFailed(sc.calls[j])
    /\ sc.calls[j].before.present
    /\ cachedToken = sc.calls[j].before
    /\ sc.calls[k].afterFail
    /\ sc.calls[k].before = sc.calls[j].before
    /\ sc.calls[k].pc = "auth"


\* C34: an answer with no results says that the expansion was tried and carries
\* the note for that case, and the proposer was called before it; no answer
\* carries the note that the expansion was not attempted.
C34_EmptyMeansExpanded ==
  /\ (response.kind = "outcome" /\ response.results = <<>>) =>
       /\ response.expandedByLLM
       /\ response.note = NoteAfterExpansion
       /\ expandedByLLM
       /\ comboCalls = 1
  /\ response.note # NoteNotAttempted

C34_Witness ==
  /\ pc = "done"
  /\ response.kind = "outcome"
  /\ response.results = <<>>
  /\ response.note = NoteAfterExpansion
  /\ req.cabin = "BUSINESS"
  /\ hist.econ = "empty"
  /\ \E k \in 1..Len(ordered) : stage[k] = "http"


\* C35: with limit >= 1, when every worker started before the race is decided
\* settles, runWithLimit returns, whether or not the workers still running after
\* the winner ever settle; it has returned as soon as nothing is left running.
C35_RaceReturns ==
  /\ []((racer.called /\ racer.limit >= 1 /\ InFlight(racer) = {}) => racer.result # Pending)
  /\ (racer.limit >= 1 ~> racer.result # Pending)

C35_Witness ==
  /\ racer.limit >= 1
  /\ racer.result \in 1..racer.n
  /\ \E k \in 1..racer.n : racer.status[k] = "hung"
  /\ \E k \in 1..racer.n : racer.status[k] = "rejected"

\* searches issued so far: at most 2 primary searches, at most one for each of at
\* most 12 candidates, at most one economy search
SearchesBounded ==
  /\ Cardinality(LogOf({"primary"})) <= 2
  /\ Cardinality(LogOf({"combo"})) <= 12
  /\ \A j, k \in LogOf({"combo"}) : log[j].idx = log[k].idx => j = k
  /\ Cardinality(LogOf({"econ"})) <= 1

\* when every call POST awaits settles, POST answers, within those bounds
AnsweredWithinBounds == []SearchesBounded /\ <>(pc = "done" /\ response # NoResponse)

\* C36: when every call POST awaits settles, the request ends in Done, that is
\* with an outcome (ranked results, or no results and a note), after at most 2
\* primary searches, at most one search for each of at most 12 candidates and at
\* most one economy search.
C36_ReachesDone ==
  /\ []SearchesBounded
  /\ [](pc = "done" => response.kind = "outcome")
  /\ <>(pc = "done")
=============================================================================
